---------------------------- MODULE Spec2Model ----------------------------
(***************************************************************************)
(* A model of the embedding index of the building-element search app:      *)
(* EmbeddingProcessor (src/src/utils/embedding.py), the files it saves and *)
(* loads, the remote embedding provider it calls, and the chat tab's query *)
(* handler (src/src/components/chat_tab.py).                               *)
(*                                                                         *)
(* Texts are sequences of Unicode code points.  Vector components are      *)
(* small integers standing for the floats of the same value; the vectors   *)
(* of the model all have an integer Euclidean norm, so every similarity is *)
(* a rational  dot / (norms + 1e-8) and is compared exactly.               *)
(***************************************************************************)
EXTENDS Integers, Sequences, FiniteSets, TLC

VARIABLES
    api_key,         \* self.api_key of the processor of the session
    openai_api_key,  \* the module attribute openai.api_key (process-wide)
    model,           \* self.model
    embeddings,      \* self.embeddings
    texts,           \* self.texts
    files,           \* the file system: path -> file
    calls,           \* provider calls issued by the latest operation, in order
    progress,        \* progress notifications of the latest operation, in order
    last,            \* the latest operation, its arguments and its outcome
    session_api_key, \* st.session_state['api_key'] ("None" when the key is absent)
    chat_history,    \* st.session_state.chat_history
    peer_api_key,    \* self.api_key of a second EmbeddingProcessor of the process
    text_chunks_cache, \* self._text_chunks_cache of the IFCProcessor
    chunks,          \* the latest IFCProcessor call, its arguments and its result
    tabs             \* per user session: its Load Embeddings action and its processor

vars == <<api_key, openai_api_key, model, embeddings, texts, files, calls,
          progress, last, session_api_key, chat_history, peer_api_key,
          text_chunks_cache, chunks, tabs>>

\* What the operations of the first EmbeddingProcessor and of the tabs leave alone
elsewhere == <<peer_api_key, text_chunks_cache, chunks, tabs>>

store == <<embeddings, texts, model>>

-----------------------------------------------------------------------------
(* Bounds of the model *)

MaxTexts == 2

MaxHistory == 4

-----------------------------------------------------------------------------
(* Values *)

None == "None"

ValidKey == "sk-valid"

Keys == {"", ValidKey}

\* A variant that tests for None alone
IsNotNone(s) == s # None

Truthy(s) == s # None /\ s # ""

AVAILABLE_MODELS ==
    {"text-embedding-3-small", "text-embedding-3-large", "text-embedding-ada-002"}

OtherModel == "custom-model"

\* "a\"", "e-acute \\", and one code point outside the Basic Multilingual Plane
TextA == <<97, 34>>
TextB == <<233, 92>>
TextC == <<128512>>

\* The texts handed to generate_embeddings, and the queries
TextPool == {TextA, TextB}

QueryPool == {TextA, TextB, TextC}

RECURSIVE SeqsUpTo(_, _)
SeqsUpTo(S, n) ==
    IF n = 0 THEN {<<>>}
    ELSE LET shorter == SeqsUpTo(S, n - 1)
         IN  shorter \cup {Append(s, x) : s \in {t \in shorter : Len(t) = n - 1}, x \in S}

TextLists == SeqsUpTo(TextPool, MaxTexts)

Paths == {"temp_embeddings"}

Formats == {"pickle", "json", "csv"}

-----------------------------------------------------------------------------
(* The remote embedding provider *)

\* The vector the provider returns for a text under a model.  The registry's
\* dimensionalities 1536, 3072, 1536 are scaled down to 2, 3, 2.
Embed(text, mdl) ==
    CASE mdl = "text-embedding-3-small" ->
            (CASE text = TextA -> <<1, 0>>
               [] text = TextB -> <<2, 0>>
               [] OTHER        -> <<0, 1>>)
      [] mdl = "text-embedding-3-large" ->
            (CASE text = TextA -> <<1, 0, 0>>
               [] text = TextB -> <<0, 1, 0>>
               [] OTHER        -> <<-1, 0, 0>>)
      [] OTHER ->
            (CASE text = TextA -> <<0, 1>>
               [] text = TextB -> <<0, 0>>
               [] OTHER        -> <<0, -2>>)

\* openai.embeddings.create(input=..., model=...): the credential is the
\* process-wide openai.api_key, never the processor's own api_key field.
EmbeddingsCreate(input, mdl, transportFails) ==
    LET key == openai_api_key
        base == [input |-> input, model |-> mdl, key |-> key]
    IN  IF key # ValidKey
        THEN [ok |-> FALSE, err |-> "AuthenticationError", embedding |-> <<>>,
              call |-> base @@ [ok |-> FALSE]]
        ELSE IF mdl \notin AVAILABLE_MODELS
        THEN [ok |-> FALSE, err |-> "NotFoundError", embedding |-> <<>>,
              call |-> base @@ [ok |-> FALSE]]
        ELSE IF transportFails
        THEN [ok |-> FALSE, err |-> "APIConnectionError", embedding |-> <<>>,
              call |-> base @@ [ok |-> FALSE]]
        ELSE [ok |-> TRUE, err |-> "", embedding |-> Embed(input, mdl),
              call |-> base @@ [ok |-> TRUE]]

-----------------------------------------------------------------------------
(* IFCProcessor: processed data and the text of an element *)

\* A key the dict does not hold
Absent == "<absent>"

\* dict.get(key, default)
Get(v, default) == IF v = Absent THEN default ELSE v

\* file_info without 'size', as process_sample_ifc builds it
NoSize == -1

\* Property values: None, an int, a str
NoValue == [kind |-> "none", int |-> 0, str |-> ""]
IntValue(n) == [kind |-> "int", int |-> n, str |-> ""]
StrValue(t) == [kind |-> "str", int |-> 0, str |-> t]

\* bool(value): None, 0 and '' are falsy
ValueTruthy(v) ==
    \/ v.kind = "int" /\ v.int # 0
    \/ v.kind = "str" /\ v.str # ""

\* `if value:` of line 244
ValueIncluded(v) == ValueTruthy(v)

\* str(value), as an f-string formats it
Str(v) ==
    CASE v.kind = "int" -> ToString(v.int)
      [] v.kind = "str" -> v.str
      [] OTHER -> "None"

\* " | ".join(text_parts)
RECURSIVE Join(_, _)
Join(sep, parts) ==
    IF parts = <<>> THEN ""
    ELSE IF Len(parts) = 1 THEN parts[1]
    ELSE parts[1] \o sep \o Join(sep, Tail(parts))

\* lines 243-250: the text of one property
PropText(prop_name, prop_data) ==
    LET unit == Get(prop_data.unit, "")
        prop_text == prop_name \o ": " \o Str(prop_data.value)
    IN  IF Truthy(unit) THEN prop_text \o " " \o unit ELSE prop_text

\* lines 242-250: the parts of the properties of one set, in the dict's order
RECURSIVE PropertyParts(_)
PropertyParts(properties) ==
    IF properties = <<>> THEN <<>>
    ELSE LET item == Head(properties)
         IN  (IF ValueIncluded(item.data.value)
              THEN <<PropText(item.name, item.data)>>
              ELSE <<>>) \o PropertyParts(Tail(properties))

\* lines 235-250: the parts of the property sets, in the dict's order
RECURSIVE PropertySetParts(_)
PropertySetParts(sets) ==
    IF sets = <<>> THEN <<>>
    ELSE LET ps == Head(sets)
         IN  (IF ps.properties = <<>>
              THEN <<>>
              ELSE <<"Property Set: " \o ps.name>> \o PropertyParts(ps.properties))
             \o PropertySetParts(Tail(sets))

\* A variant that puts the description before the name
TextPartsDescriptionFirst(element) ==
    <<"Element Type: " \o Get(element.type, "Unknown")>>
    \o (IF Truthy(Get(element.description, None))
        THEN <<"Description: " \o element.description>> ELSE <<>>)
    \o (IF Truthy(Get(element.name, None))
        THEN <<"Name: " \o element.name>> ELSE <<>>)
    \o PropertySetParts(element.properties)

\* lines 221-250: text_parts of one element
TextParts(element) ==
    <<"Element Type: " \o Get(element.type, "Unknown")>>
    \o (IF Truthy(Get(element.name, None))
        THEN <<"Name: " \o element.name>> ELSE <<>>)
    \o (IF Truthy(Get(element.description, None))
        THEN <<"Description: " \o element.description>> ELSE <<>>)
    \o PropertySetParts(element.properties)

\* lines 253-254
ElementText(element) == Join(" | ", TextParts(element))

\* lines 214-254: the loop over the batches of elements
RECURSIVE ConvertBatches(_, _, _)
ConvertBatches(elements, i, batch_size) ==
    IF i >= Len(elements) THEN <<>>
    ELSE LET batch == SubSeq(elements, i + 1,
                               IF i + batch_size < Len(elements)
                               THEN i + batch_size ELSE Len(elements))
         IN  [k \in 1..Len(batch) |-> ElementText(batch[k])]
             \o ConvertBatches(elements, i + batch_size, batch_size)

\* lines 205-206
CacheKey(processed_data) ==
    LET file_info == processed_data.file_info
    IN  Get(file_info.name, "") \o "_"
        \o ToString(IF file_info.size = NoSize THEN 0 ELSE file_info.size)

\* Processed data the materializer is given

Prop(prop_name, value, unit) ==
    [name |-> prop_name, data |-> [value |-> value, unit |-> unit]]

PropertySet(ps_name, properties) == [name |-> ps_name, properties |-> properties]

Thickness0 == Prop("Thickness", IntValue(0), "mm")
Thickness200 == Prop("Thickness", IntValue(200), "mm")
Finish == Prop("Finish", StrValue("paint"), "")
Reference == Prop("Reference", StrValue("Basic"), Absent)
\* a property without NominalValue, as extract_element_data stores it
IsExternal == Prop("IsExternal", NoValue, None)

PropertiesPool ==
    { <<>>,
      <<PropertySet("Pset_Empty", <<>>)>>,
      <<PropertySet("Dims", <<Thickness0>>)>>,
      <<PropertySet("Pset_WallCommon", <<IsExternal>>)>>,
      <<PropertySet("Pset_WallCommon", <<IsExternal, Reference>>)>>,
      <<PropertySet("Dims", <<Thickness200, Finish>>),
        PropertySet("Pset_WallCommon", <<Reference>>)>> }

Element(type, name, description, properties) ==
    [type |-> type, name |-> name, description |-> description,
     properties |-> properties]

Elements ==
    { Element(t, "W1", "Ext", <<>>) : t \in {Absent, "", "IfcWall"} }
    \cup { Element("IfcWall", n, "", <<>>) : n \in {"", "W1"} }
    \cup { Element("IfcWall", "", "Ext", <<>>) }
    \cup { Element("IfcWall", "W1", "", ps) : ps \in PropertiesPool }

Slab == Element("IfcSlab", "S1", Absent, <<PropertySet("Dims", <<Thickness200>>)>>)

ElementLists ==
    { <<>> } \cup { <<e>> : e \in Elements }
    \cup { <<Element("IfcWall", "W1", "Ext", <<>>), Slab>> }

\* file_info of process_uploaded_ifc (name and size) and of process_sample_ifc
\* (name, no size)
FileInfos ==
    { [name |-> "model.ifc", size |-> 10],
      [name |-> "model.ifc", size |-> NoSize] }

DataPool ==
    { [file_info |-> f, elements |-> els] : f \in FileInfos, els \in ElementLists }

\* IFC files as ifcopenshell presents them: entities with is_a(), Name,
\* Description and the property sets of IsDefinedBy

\* IfcPropertySingleValue: Name and NominalValue (absent when has is FALSE)
IfcProperty(prop_name, has, wrappedValue) ==
    [Name |-> prop_name, NominalValue |-> [has |-> has, wrappedValue |-> wrappedValue]]

IfcEntity(is_a, Name, Description, IsDefinedBy) ==
    [is_a |-> is_a, Name |-> Name, Description |-> Description,
     IsDefinedBy |-> IsDefinedBy]

\* lines 41-44
element_types ==
    <<"IfcWall", "IfcSlab", "IfcBeam", "IfcColumn", "IfcDoor", "IfcWindow",
      "IfcStair", "IfcRailing", "IfcRoof", "IfcCurtainWall",
      "IfcBuildingElementProxy">>

\* lines 90-99: the dict of one property set; the unit is read from the
\* NominalValue, which has no Unit attribute, so it is None
RECURSIVE ExtractProperties(_)
ExtractProperties(HasProperties) ==
    IF HasProperties = <<>> THEN <<>>
    ELSE LET prop == Head(HasProperties)
         IN  <<Prop(prop.Name,
                    IF prop.NominalValue.has
                    THEN prop.NominalValue.wrappedValue ELSE NoValue,
                    None)>>
             \o ExtractProperties(Tail(HasProperties))

\* lines 65-109, restricted to the keys convert_to_text_chunks reads
extract_element_data(element, include_properties, include_geometry) ==
    Element(element.is_a,
            IF Truthy(element.Name) THEN element.Name ELSE "",
            IF Truthy(element.Description) THEN element.Description ELSE "",
            IF include_properties
            THEN [s \in 1..Len(element.IsDefinedBy) |->
                     PropertySet(element.IsDefinedBy[s].name,
                                 ExtractProperties(element.IsDefinedBy[s].properties))]
            ELSE <<>>)

\* lines 46-61: the elements of each type of element_types in turn
RECURSIVE ExtractTypesFrom(_, _)
ExtractTypesFrom(entities, t) ==
    IF t > Len(element_types) THEN <<>>
    ELSE LET ifc_elements == SelectSeq(entities, LAMBDA e : e.is_a = element_types[t])
         IN  [k \in 1..Len(ifc_elements) |->
                 extract_element_data(ifc_elements[k], FALSE, FALSE)]
             \o ExtractTypesFrom(entities, t + 1)

extract_building_elements(ifc_file) == ExtractTypesFrom(ifc_file.entities, 1)

\* lines 138-170, restricted to the keys convert_to_text_chunks reads
ProcessUploadedIfc(uploaded_file) ==
    [file_info |-> [name |-> uploaded_file.name, size |-> uploaded_file.size],
     elements |-> extract_building_elements(uploaded_file)]

\* lines 172-195
ProcessSampleIfc(ifc_file) ==
    [file_info |-> [name |-> ifc_file.name, size |-> NoSize],
     elements |-> extract_building_elements(ifc_file)]

WallEntity ==
    IfcEntity("IfcWall", "W1", None,
              <<PropertySet("Dims", <<IfcProperty("Thickness", TRUE, IntValue(200))>>),
                PropertySet("Pset_WallCommon",
                            <<IfcProperty("IsExternal", FALSE, NoValue),
                              IfcProperty("Reference", TRUE, StrValue("Basic"))>>)>>)

SlabEntity == IfcEntity("IfcSlab", None, "Floor", <<>>)

SpaceEntity == IfcEntity("IfcSpace", "Room", None, <<>>)

IfcFiles ==
    { [name |-> "model.ifc", size |-> 10, entities |-> <<WallEntity>>],
      [name |-> "model.ifc", size |-> 10,
       entities |-> <<SpaceEntity, SlabEntity, WallEntity>>] }

ProcessedPool ==
    { ProcessUploadedIfc(f) : f \in IfcFiles } \cup { ProcessSampleIfc(f) : f \in IfcFiles }

BatchSizes == {1, 100}

CacheKeys == { CacheKey(d) : d \in DataPool \cup ProcessedPool }

\* self._text_chunks_cache = {}
EmptyCache == [k \in CacheKeys |-> [has |-> FALSE, texts |-> <<>>]]

NoChunks ==
    [op |-> "init",
     processed_data |-> [file_info |-> [name |-> "", size |-> NoSize], elements |-> <<>>],
     use_cache |-> FALSE, returned |-> <<>>, hit |-> FALSE]

-----------------------------------------------------------------------------
(* Outcome records *)

NoScore == [num |-> 0, den |-> 0]

NoLast ==
    [op |-> "init", ok |-> TRUE, err |-> "", texts_in |-> <<>>, query |-> <<>>,
     path |-> "", format |-> "", arg |-> "", returned |-> <<>>,
     index |-> -1, text |-> <<>>, score |-> NoScore, callback |-> FALSE]

NoFile ==
    [exists |-> FALSE, kind |-> "", has |-> {}, embeddings |-> <<>>,
     texts |-> <<>>, model |-> "", by |-> "",
     snap |-> [embeddings |-> <<>>, texts |-> <<>>, model |-> ""]]

\* The user sessions of the server process
Sessions == {1, 2}

\* A session that has not pressed Load Embeddings: no upload, a new processor
NoTab ==
    [pc |-> "idle", upload |-> NoFile, embeddings |-> <<>>, texts |-> <<>>,
     model |-> "text-embedding-3-small", error |-> ""]

-----------------------------------------------------------------------------
(* EmbeddingProcessor *)

Init ==
    /\ api_key = None
    /\ openai_api_key = None
    /\ model = "text-embedding-3-small"
    /\ embeddings = <<>>
    /\ texts = <<>>
    /\ files = [p \in Paths |-> NoFile]
    /\ calls = <<>>
    /\ progress = <<>>
    /\ last = NoLast
    /\ session_api_key = None
    /\ chat_history = <<>>
    /\ peer_api_key = None
    /\ text_chunks_cache = EmptyCache
    /\ chunks = NoChunks
    /\ tabs = [s \in Sessions |-> NoTab]

\* A new session constructs its own EmbeddingProcessor; openai.api_key and the
\* files outlive it.
NewProcessor ==
    /\ api_key' = None
    /\ model' = "text-embedding-3-small"
    /\ embeddings' = <<>>
    /\ texts' = <<>>
    /\ calls' = <<>>
    /\ progress' = <<>>
    /\ last' = [NoLast EXCEPT !.op = "new"]
    /\ session_api_key' = None
    /\ chat_history' = <<>>
    /\ UNCHANGED <<elsewhere, openai_api_key, files>>

set_api_key(key) ==
    /\ api_key' = key
    /\ openai_api_key' = key
    /\ calls' = <<>>
    /\ progress' = <<>>
    /\ last' = [NoLast EXCEPT !.op = "set_api_key", !.arg = key]
    /\ UNCHANGED <<elsewhere, model, embeddings, texts, files, session_api_key, chat_history>>

\* A variant that assigns before it validates
SetModelAssignFirst(m) ==
    /\ model' = m
    /\ last' = IF m \in AVAILABLE_MODELS
               THEN [NoLast EXCEPT !.op = "set_model", !.arg = m]
               ELSE [NoLast EXCEPT !.op = "set_model", !.arg = m,
                                   !.ok = FALSE, !.err = "ValueError"]
    /\ calls' = <<>>
    /\ progress' = <<>>
    /\ UNCHANGED <<elsewhere, api_key, openai_api_key, embeddings, texts, files,
                   session_api_key, chat_history>>

set_model(m) ==
    /\ IF m \in AVAILABLE_MODELS
       THEN /\ model' = m
            /\ last' = [NoLast EXCEPT !.op = "set_model", !.arg = m]
       ELSE /\ model' = model
            /\ last' = [NoLast EXCEPT !.op = "set_model", !.arg = m,
                                      !.ok = FALSE, !.err = "ValueError"]
    /\ calls' = <<>>
    /\ progress' = <<>>
    /\ UNCHANGED <<elsewhere, api_key, openai_api_key, embeddings, texts, files,
                   session_api_key, chat_history>>


\* Lines 43-52: the loop of generate_embeddings from position i on, with the
\* local list, the calls issued and the notifications delivered so far.
\* failAt is the position whose provider call suffers a transport failure,
\* cbFailAt the position at which the progress callback raises (0: none).
\* A variant that notifies before the provider is called
RECURSIVE GenerateLoopNotifyFirst(_, _, _, _)
GenerateLoopNotifyFirst(T, i, acc, env) ==
    IF i > Len(T)
    THEN [acc EXCEPT !.status = "done"]
    ELSE LET told == IF env.callback
                     THEN [acc EXCEPT !.progress = Append(@, [num |-> i, den |-> Len(T)])]
                     ELSE acc
             r == EmbeddingsCreate(T[i], model, env.failAt = i)
             called == [told EXCEPT !.calls = Append(@, r.call)]
         IN  IF env.callback /\ env.cbFailAt = i
             THEN [told EXCEPT !.status = "CallbackError"]
             ELSE IF ~r.ok
             THEN [called EXCEPT !.status = r.err]
             ELSE GenerateLoopNotifyFirst(T, i + 1,
                      [called EXCEPT !.embeddings = Append(@, r.embedding)], env)

RECURSIVE GenerateLoop(_, _, _, _)
GenerateLoop(T, i, acc, env) ==
    IF i > Len(T)
    THEN [acc EXCEPT !.status = "done"]
    ELSE LET r == EmbeddingsCreate(T[i], model, env.failAt = i)
             called == [acc EXCEPT !.calls = Append(@, r.call)]
         IN  IF ~r.ok
             THEN [called EXCEPT !.status = r.err]
             ELSE LET got == [called EXCEPT !.embeddings = Append(@, r.embedding)]
                  IN  IF env.callback
                      THEN LET told == [got EXCEPT !.progress =
                                           Append(@, [num |-> i, den |-> Len(T)])]
                           IN  IF env.cbFailAt = i
                               THEN [told EXCEPT !.status = "CallbackError"]
                               ELSE GenerateLoop(T, i + 1, told, env)
                      ELSE GenerateLoop(T, i + 1, got, env)

GenerateRun(T, env) ==
    IF ~Truthy(api_key)
    THEN [status |-> "ValueError", embeddings |-> <<>>, calls |-> <<>>, progress |-> <<>>]
    ELSE GenerateLoop(T, 1,
            [status |-> "running", embeddings |-> <<>>, calls |-> <<>>, progress |-> <<>>],
            env)

\* A variant that fills self.embeddings as the vectors arrive
GenerateStoreInPlace(T, run) ==
    IF run.status = "done" THEN <<run.embeddings, T>> ELSE <<run.embeddings, texts>>

\* A variant that appends to the store instead of replacing it
GenerateStoreAppend(T, run) ==
    IF run.status = "done" THEN <<embeddings \o run.embeddings, texts \o T>>
    ELSE <<embeddings, texts>>

\* What generate_embeddings leaves in (self.embeddings, self.texts) after a run.
GenerateStore(T, run) ==
    IF run.status = "done" THEN <<run.embeddings, T>> ELSE <<embeddings, texts>>

generate_embeddings(T, callback, failAt, cbFailAt) ==
    LET run == GenerateRun(T, [callback |-> callback, failAt |-> failAt,
                               cbFailAt |-> cbFailAt])
        after == GenerateStore(T, run)
    IN  /\ embeddings' = after[1]
        /\ texts' = after[2]
        /\ calls' = run.calls
        /\ progress' = run.progress
        /\ last' = [NoLast EXCEPT !.op = "generate_embeddings", !.texts_in = T,
                                  !.callback = callback,
                                  !.ok = (run.status = "done"),
                                  !.err = IF run.status = "done" THEN "" ELSE run.status,
                                  !.returned = IF run.status = "done"
                                               THEN run.embeddings ELSE <<>>]
        /\ UNCHANGED <<elsewhere, api_key, openai_api_key, model, files, session_api_key,
                       chat_history>>

-----------------------------------------------------------------------------
(* Cosine similarity, lines 67-75 *)

EpsInv == 100000000

RECURSIVE Dot(_, _)
Dot(u, v) == IF u = <<>> THEN 0 ELSE Head(u) * Head(v) + Dot(Tail(u), Tail(v))

\* np.linalg.norm; the square root is exact for the vectors of the model
Norm(v) == CHOOSE r \in 0..Dot(v, v) : r * r = Dot(v, v)

\* similarities[i] = dot / (norm * norm + 1e-8), kept as the pair (dot, norm * norm)
Similarity(doc, q) == [num |-> Dot(doc, q), den |-> Norm(doc) * Norm(q)]

\* s > t for s = s.num / (s.den + 1e-8), t likewise: both denominators are
\* positive, so the quotients compare as the cross products, scaled by 1e8.
SimGreater(s, t) == s.num * (t.den * EpsInv + 1) > t.num * (s.den * EpsInv + 1)

SimEqual(s, t) == ~SimGreater(s, t) /\ ~SimGreater(t, s)

\* np.argmax: one pass, the running best replaced only by a strictly greater value
RECURSIVE ArgMaxFrom(_, _, _)
ArgMaxFrom(sims, i, best) ==
    IF i > Len(sims) THEN best
    ELSE ArgMaxFrom(sims, i + 1, IF SimGreater(sims[i], sims[best]) THEN i ELSE best)

\* A variant that keeps the smallest value (argmin)
RECURSIVE ArgMinFrom(_, _, _)
ArgMinFrom(sims, i, best) ==
    IF i > Len(sims) THEN best
    ELSE ArgMinFrom(sims, i + 1, IF SimGreater(sims[best], sims[i]) THEN i ELSE best)

ArgMin(sims) == ArgMinFrom(sims, 2, 1)

\* A variant that replaces the running best by an equal value too
RECURSIVE ArgMaxLastFrom(_, _, _)
ArgMaxLastFrom(sims, i, best) ==
    IF i > Len(sims) THEN best
    ELSE ArgMaxLastFrom(sims, i + 1, IF SimGreater(sims[best], sims[i]) THEN best ELSE i)

ArgMaxLast(sims) == ArgMaxLastFrom(sims, 2, 1)

ArgMax(sims) == ArgMaxFrom(sims, 2, 1)

\* np.array(self.embeddings) needs rows of one length, np.dot a query of that length
Rectangular(embs) == \A i, j \in 1..Len(embs) : Len(embs[i]) = Len(embs[j])

\* A variant that accepts any query at least as long as the rows
DotShapesLoose(embs, q) ==
    embs # <<>> /\ Rectangular(embs) /\ Len(embs[1]) <= Len(q)

\* np.dot(doc_embeddings, query_embedding), line 71: the rows of the array
\* and the query have one length
DotShapesAligned(embs, q) ==
    embs # <<>> /\ Rectangular(embs) /\ Len(embs[1]) = Len(q)

\* A variant without the guard
NeverNothingToSearch == FALSE

\* The guard of line 60
NothingToSearch == embeddings = <<>> \/ texts = <<>>

\* find_most_similar up to its return value; indices are Python's (from 0)
FindRun(query, transportFails) ==
    IF NothingToSearch
    THEN [status |-> "ValueError", calls |-> <<>>, index |-> -1, text |-> <<>>,
          score |-> NoScore]
    ELSE LET r == EmbeddingsCreate(query, model, transportFails)
             failed(e) == [status |-> e, calls |-> <<r.call>>, index |-> -1,
                           text |-> <<>>, score |-> NoScore]
         IN  IF ~r.ok THEN failed(r.err)
             ELSE IF ~DotShapesAligned(embeddings, r.embedding)
             THEN failed("ValueError")
             ELSE LET sims == [i \in 1..Len(embeddings) |->
                                  Similarity(embeddings[i], r.embedding)]
                      top == ArgMax(sims)
                  IN  IF top > Len(texts) THEN failed("IndexError")
                      ELSE [status |-> "ok", calls |-> <<r.call>>, index |-> top - 1,
                            text |-> texts[top], score |-> sims[top]]

\* A variant that keeps the match it returns at the front of the store
FindMoveToFront(query, transportFails) ==
    LET run == FindRun(query, transportFails)
        top == run.index + 1
        front(s) == IF run.status = "ok"
                    THEN <<s[top]>> \o [i \in 1..(Len(s) - 1) |->
                                           IF i < top THEN s[i] ELSE s[i + 1]]
                    ELSE s
    IN  /\ calls' = run.calls
        /\ progress' = <<>>
        /\ embeddings' = front(embeddings)
        /\ texts' = front(texts)
        /\ last' = [NoLast EXCEPT !.op = "find_most_similar", !.query = query,
                                  !.ok = (run.status = "ok"),
                                  !.err = IF run.status = "ok" THEN "" ELSE run.status,
                                  !.index = run.index, !.text = run.text,
                                  !.score = run.score]
        /\ UNCHANGED <<elsewhere, api_key, openai_api_key, model, files, session_api_key,
                       chat_history>>

find_most_similar(query, transportFails) ==
    LET run == FindRun(query, transportFails)
    IN  /\ calls' = run.calls
        /\ progress' = <<>>
        /\ last' = [NoLast EXCEPT !.op = "find_most_similar", !.query = query,
                                  !.ok = (run.status = "ok"),
                                  !.err = IF run.status = "ok" THEN "" ELSE run.status,
                                  !.index = run.index, !.text = run.text,
                                  !.score = run.score]
        /\ UNCHANGED <<elsewhere, api_key, openai_api_key, model, embeddings, texts, files,
                       session_api_key, chat_history>>

-----------------------------------------------------------------------------
(* json.dump / json.load, lines 105-106 and 124-125 *)

HexDigit(d) == IF d < 10 THEN 48 + d ELSE 87 + d

HexValue(c) == IF c <= 57 THEN c - 48 ELSE IF c >= 97 THEN c - 87 ELSE c - 55

\* \uXXXX
UEscape(n) ==
    <<92, 117, HexDigit(n \div 4096), HexDigit((n \div 256) % 16),
      HexDigit((n \div 16) % 16), HexDigit(n % 16)>>

\* ensure_ascii: the quote and the backslash are escaped, printable ASCII is
\* kept, every other code point becomes \uXXXX, as a surrogate pair above U+FFFF
JsonEscapeChar(c) ==
    IF c = 34 \/ c = 92 THEN <<92, c>>
    ELSE IF c >= 32 /\ c <= 126 THEN <<c>>
    ELSE IF c < 65536 THEN UEscape(c)
    ELSE UEscape(55296 + ((c - 65536) \div 1024)) \o UEscape(56320 + ((c - 65536) % 1024))

RECURSIVE JsonEscape(_)
JsonEscape(t) == IF t = <<>> THEN <<>> ELSE JsonEscapeChar(Head(t)) \o JsonEscape(Tail(t))

Hex4At(s, i) ==
    HexValue(s[i]) * 4096 + HexValue(s[i + 1]) * 256 + HexValue(s[i + 2]) * 16
        + HexValue(s[i + 3])

\* A variant that leaves the two halves of a surrogate pair apart
RECURSIVE JsonUnescapeNoPairs(_, _)
JsonUnescapeNoPairs(s, i) ==
    IF i > Len(s) THEN <<>>
    ELSE IF s[i] # 92 THEN <<s[i]>> \o JsonUnescapeNoPairs(s, i + 1)
    ELSE IF s[i + 1] # 117 THEN <<s[i + 1]>> \o JsonUnescapeNoPairs(s, i + 2)
    ELSE <<Hex4At(s, i + 2)>> \o JsonUnescapeNoPairs(s, i + 6)

\* the decoder's string scanner: escapes are undone, a high surrogate followed
\* by an escaped low surrogate is joined into one code point
RECURSIVE JsonUnescapeFrom(_, _)
JsonUnescapeFrom(s, i) ==
    IF i > Len(s) THEN <<>>
    ELSE IF s[i] # 92 THEN <<s[i]>> \o JsonUnescapeFrom(s, i + 1)
    ELSE IF s[i + 1] # 117 THEN <<s[i + 1]>> \o JsonUnescapeFrom(s, i + 2)
    ELSE LET u == Hex4At(s, i + 2)
         IN  IF /\ u >= 55296 /\ u <= 56319
                /\ i + 11 <= Len(s)
                /\ s[i + 6] = 92 /\ s[i + 7] = 117
                /\ Hex4At(s, i + 8) >= 56320 /\ Hex4At(s, i + 8) <= 57343
             THEN <<65536 + (u - 55296) * 1024 + (Hex4At(s, i + 8) - 56320)>>
                      \o JsonUnescapeFrom(s, i + 12)
             ELSE <<u>> \o JsonUnescapeFrom(s, i + 6)

JsonUnescape(s) == JsonUnescapeFrom(s, 1)

RECURSIVE Digits(_)
Digits(n) == IF n < 10 THEN <<48 + n>> ELSE Append(Digits(n \div 10), 48 + (n % 10))

\* float.__repr__ of an integral float: "-2.0"
JsonNumber(x) ==
    (IF x < 0 THEN <<45>> ELSE <<>>) \o Digits(IF x < 0 THEN -x ELSE x) \o <<46, 48>>

RECURSIVE ParseDigitsFrom(_, _, _)
ParseDigitsFrom(s, i, acc) ==
    IF i > Len(s) \/ s[i] = 46 THEN acc
    ELSE ParseDigitsFrom(s, i + 1, acc * 10 + (s[i] - 48))

JsonParseNumber(s) ==
    IF s[1] = 45 THEN -ParseDigitsFrom(s, 2, 0) ELSE ParseDigitsFrom(s, 1, 0)

-----------------------------------------------------------------------------
(* pickle.dump / pickle.load, lines 102-103 and 121-122: a str is stored as *)
(* its UTF-8 bytes, a float as the eight bytes of its IEEE-754 double,       *)
(* most significant first                                                   *)

RECURSIVE Pow2(_)
Pow2(e) == IF e = 0 THEN 1 ELSE 2 * Pow2(e - 1)

RECURSIVE Log2(_)
Log2(n) == IF n < 2 THEN 0 ELSE 1 + Log2(n \div 2)

\* The double of an integral value below 32: sign bit, exponent biased by
\* 1023, and a fraction whose bits all lie in the top four
PickleFloat(x) ==
    LET a == IF x < 0 THEN -x ELSE x
        sign == IF x < 0 THEN 128 ELSE 0
        e == Log2(a)
        biased == IF a = 0 THEN 0 ELSE 1023 + e
        top4 == IF a = 0 THEN 0 ELSE ((a - Pow2(e)) * 16) \div Pow2(e)
    IN  <<sign + (biased \div 16), (biased % 16) * 16 + top4, 0, 0, 0, 0, 0, 0>>

PickleParseFloat(b) ==
    LET negative == b[1] >= 128
        biased == (b[1] % 128) * 16 + (b[2] \div 16)
        top4 == b[2] % 16
        a == IF biased = 0 THEN 0
             ELSE Pow2(biased - 1023) + (top4 * Pow2(biased - 1023)) \div 16
    IN  IF negative THEN -a ELSE a

Utf8Char(c) ==
    IF c < 128 THEN <<c>>
    ELSE IF c < 2048 THEN <<192 + (c \div 64), 128 + (c % 64)>>
    ELSE IF c < 65536
    THEN <<224 + (c \div 4096), 128 + ((c \div 64) % 64), 128 + (c % 64)>>
    ELSE <<240 + (c \div 262144), 128 + ((c \div 4096) % 64),
           128 + ((c \div 64) % 64), 128 + (c % 64)>>

RECURSIVE Utf8Encode(_)
Utf8Encode(t) == IF t = <<>> THEN <<>> ELSE Utf8Char(Head(t)) \o Utf8Encode(Tail(t))

RECURSIVE Utf8DecodeFrom(_, _)
Utf8DecodeFrom(b, i) ==
    IF i > Len(b) THEN <<>>
    ELSE IF b[i] < 128 THEN <<b[i]>> \o Utf8DecodeFrom(b, i + 1)
    ELSE IF b[i] < 224
    THEN <<(b[i] - 192) * 64 + (b[i + 1] - 128)>> \o Utf8DecodeFrom(b, i + 2)
    ELSE IF b[i] < 240
    THEN <<(b[i] - 224) * 4096 + (b[i + 1] - 128) * 64 + (b[i + 2] - 128)>>
             \o Utf8DecodeFrom(b, i + 3)
    ELSE <<(b[i] - 240) * 262144 + (b[i + 1] - 128) * 4096 + (b[i + 2] - 128) * 64
             + (b[i + 3] - 128)>> \o Utf8DecodeFrom(b, i + 4)

Utf8Decode(b) == Utf8DecodeFrom(b, 1)

-----------------------------------------------------------------------------
(* Files *)

EncodeText(format, t) == IF format = "json" THEN JsonEscape(t) ELSE Utf8Encode(t)

DecodeText(format, s) == IF format = "json" THEN JsonUnescape(s) ELSE Utf8Decode(s)

EncodeVector(format, v) ==
    [i \in 1..Len(v) |-> IF format = "json" THEN JsonNumber(v[i]) ELSE PickleFloat(v[i])]

DecodeVector(format, e) ==
    [i \in 1..Len(e) |-> IF format = "json" THEN JsonParseNumber(e[i])
                          ELSE PickleParseFloat(e[i])]

\* The serialized form of a dict holding the keys `has` of data
Dump(format, data, has, by) ==
    [exists |-> TRUE, kind |-> format, has |-> has,
     embeddings |-> IF "embeddings" \in has
                    THEN [i \in 1..Len(data.embeddings) |->
                             EncodeVector(format, data.embeddings[i])]
                    ELSE <<>>,
     texts |-> IF "texts" \in has
               THEN [i \in 1..Len(data.texts) |-> EncodeText(format, data.texts[i])]
               ELSE <<>>,
     model |-> IF "model" \in has THEN data.model ELSE "",
     by |-> by,
     snap |-> IF by = "save" THEN data
              ELSE [embeddings |-> <<>>, texts |-> <<>>, model |-> ""]]

\* The dict pickle.load / json.load returns for a well-formed file
Parse(file) ==
    [has |-> file.has,
     embeddings |-> [i \in 1..Len(file.embeddings) |->
                        DecodeVector(file.kind, file.embeddings[i])],
     texts |-> [i \in 1..Len(file.texts) |-> DecodeText(file.kind, file.texts[i])],
     model |-> file.model]

AllKeys == {"embeddings", "texts", "model"}

\* A variant that opens the file for writing before it looks at the format
SaveFileOpenFirst(path, format, openFails) ==
    IF openFails THEN files[path]
    ELSE IF format \notin {"pickle", "json"}
    THEN [NoFile EXCEPT !.exists = TRUE]
    ELSE Dump(format, [embeddings |-> embeddings, texts |-> texts, model |-> model],
              AllKeys, "save")

\* The file save_embeddings leaves at the path
SaveFile(path, format, openFails) ==
    IF format \notin {"pickle", "json"} \/ openFails
    THEN files[path]
    ELSE Dump(format, [embeddings |-> embeddings, texts |-> texts, model |-> model],
              AllKeys, "save")

save_embeddings(path, format, openFails) ==
    LET failed == format \notin {"pickle", "json"} \/ openFails
    IN  /\ files' = [files EXCEPT ![path] = SaveFile(path, format, openFails)]
        /\ calls' = <<>>
        /\ progress' = <<>>
        /\ last' = [NoLast EXCEPT !.op = "save_embeddings", !.path = path,
                                  !.format = format, !.ok = ~failed,
                                  !.err = IF failed THEN "ValueError" ELSE "",
                                  !.arg = IF format \notin {"pickle", "json"}
                                          THEN "format" ELSE IF openFails THEN "OSError"
                                          ELSE ""]
        /\ UNCHANGED <<elsewhere, api_key, openai_api_key, model, embeddings, texts,
                       session_api_key, chat_history>>

\* Lines 129-131: three assignments in order, each reading one key of the dict
LoadAssign(data, start) ==
    LET s1 == IF "embeddings" \in data.has
              THEN [start EXCEPT !.embeddings = data.embeddings]
              ELSE [start EXCEPT !.status = "KeyError"]
        s2 == IF s1.status # "running" THEN s1
              ELSE IF "texts" \in data.has
              THEN [s1 EXCEPT !.texts = data.texts]
              ELSE [s1 EXCEPT !.status = "KeyError"]
        s3 == IF s2.status # "running" THEN s2
              ELSE IF "model" \in data.has
              THEN [s2 EXCEPT !.model = data.model, !.status = "ok"]
              ELSE [s2 EXCEPT !.status = "KeyError"]
    IN  s3

\* load_embeddings up to the store it leaves; status is the exception caught
\* at line 132, which reaches the caller as a ValueError
LoadRun(path, format) ==
    LET file == files[path]
        start == [status |-> "running", embeddings |-> embeddings, texts |-> texts,
                  model |-> model]
    IN  IF format \notin {"pickle", "json"} THEN [start EXCEPT !.status = "format"]
        ELSE IF ~file.exists THEN [start EXCEPT !.status = "FileNotFoundError"]
        ELSE IF file.kind # format THEN [start EXCEPT !.status = "DecodeError"]
        ELSE LoadAssign(Parse(file), start)

load_embeddings(path, format) ==
    LET run == LoadRun(path, format)
    IN  /\ embeddings' = run.embeddings
        /\ texts' = run.texts
        /\ model' = run.model
        /\ calls' = <<>>
        /\ progress' = <<>>
        /\ last' = [NoLast EXCEPT !.op = "load_embeddings", !.path = path,
                                  !.format = format, !.ok = (run.status = "ok"),
                                  !.err = IF run.status = "ok" THEN "" ELSE "ValueError",
                                  !.arg = IF run.status = "ok" THEN "" ELSE run.status]
        /\ UNCHANGED <<elsewhere, api_key, openai_api_key, files, session_api_key, chat_history>>

-----------------------------------------------------------------------------
(* Files that reach the path from outside: the upload written at           *)
(* load_embeddings_tab.py lines 37-38                                      *)

Small == "text-embedding-3-small"

UploadPayloads ==
    { [has |-> AllKeys, embeddings |-> <<<<-1, 0>>>>, texts |-> <<TextC>>,
       model |-> OtherModel],
      [has |-> AllKeys, embeddings |-> <<>>, texts |-> <<>>,
       model |-> "text-embedding-ada-002"],
      [has |-> AllKeys, embeddings |-> <<<<1, 0>>, <<0, 1>>>>, texts |-> <<TextB>>,
       model |-> Small],
      [has |-> AllKeys, embeddings |-> <<<<2, 0>>>>, texts |-> <<TextA, TextC>>,
       model |-> Small],
      [has |-> AllKeys, embeddings |-> <<<<1, 0>>, <<1, 0, 0>>>>,
       texts |-> <<TextA, TextB>>, model |-> Small],
      [has |-> {"embeddings"}, embeddings |-> <<<<0, 1>>>>, texts |-> <<>>,
       model |-> ""],
      [has |-> {"embeddings", "texts"}, embeddings |-> <<<<0, 1>>>>,
       texts |-> <<TextC>>, model |-> ""],
      [has |-> {"texts", "model"}, embeddings |-> <<>>, texts |-> <<TextA>>,
       model |-> Small] }

Garbage == [NoFile EXCEPT !.exists = TRUE, !.kind = "garbage", !.by = "upload"]

Uploads ==
    {Dump(f, d, d.has, "upload") : f \in {"pickle", "json"}, d \in UploadPayloads}
        \cup {Garbage}

WriteUpload(path, upload) ==
    /\ files' = [files EXCEPT ![path] = upload]
    /\ calls' = <<>>
    /\ progress' = <<>>
    /\ last' = [NoLast EXCEPT !.op = "upload", !.path = path]
    /\ UNCHANGED <<elsewhere, api_key, openai_api_key, model, embeddings, texts,
                   session_api_key, chat_history>>

-----------------------------------------------------------------------------
(* The API key tab and the chat tab *)

\* The methods class EmbeddingProcessor defines
EmbeddingProcessorMethods ==
    {"set_api_key", "set_model", "generate_embeddings", "find_most_similar",
     "get_available_models", "save_embeddings", "load_embeddings"}

\* APIKeyManager.render with a key typed into the input
APIKeyManager(key) ==
    /\ session_api_key # key /\ Truthy(key)
    /\ api_key' = key
    /\ openai_api_key' = key
    /\ session_api_key' = key
    /\ calls' = <<>>
    /\ progress' = <<>>
    /\ last' = [NoLast EXCEPT !.op = "set_api_key", !.arg = key]
    /\ UNCHANGED <<elsewhere, model, embeddings, texts, files, chat_history>>

\* The outcome of embedding_processor.find_top_similar(user_query, top_k=3)
FindTopSimilar(query, top_k) ==
    IF "find_top_similar" \notin EmbeddingProcessorMethods
    THEN [status |-> "AttributeError", results |-> <<>>]
    ELSE [status |-> "ok", results |-> <<>>]

\* A variant whose except clause shows the error without recording it
ChatQueryErrorNotRecorded(query) ==
    LET asked == Append(chat_history, [role |-> "user", kind |-> "query",
                                       query |-> query])
        found == FindTopSimilar(query, 3)
    IN  /\ embeddings # <<>>
        /\ session_api_key # None
        /\ Len(chat_history) + 2 <= MaxHistory
        /\ chat_history' =
              IF found.status = "ok"
              THEN Append(asked, [role |-> "assistant", kind |-> "response",
                                  query |-> query])
              ELSE asked
        /\ calls' = <<>>
        /\ progress' = <<>>
        /\ last' = [NoLast EXCEPT !.op = "chat_query", !.query = query,
                                  !.ok = (found.status = "ok"),
                                  !.err = IF found.status = "ok" THEN ""
                                          ELSE found.status,
                                  !.returned = found.results]
        /\ UNCHANGED <<elsewhere, api_key, openai_api_key, model, embeddings, texts, files,
                       session_api_key>>

\* ChatTab._show_chat_interface with a query typed into the chat input
ChatQuery(query) ==
    LET asked == Append(chat_history, [role |-> "user", kind |-> "query",
                                       query |-> query])
        found == FindTopSimilar(query, 3)
    IN  /\ embeddings # <<>>
        /\ session_api_key # None
        /\ Len(chat_history) + 2 <= MaxHistory
        /\ chat_history' =
              Append(asked, [role |-> "assistant",
                             kind |-> IF found.status = "ok" THEN "response"
                                      ELSE "Error processing query",
                             query |-> query])
        /\ calls' = <<>>
        /\ progress' = <<>>
        /\ last' = [NoLast EXCEPT !.op = "chat_query", !.query = query,
                                  !.ok = (found.status = "ok"),
                                  !.err = IF found.status = "ok" THEN ""
                                          ELSE found.status,
                                  !.returned = found.results]
        /\ UNCHANGED <<elsewhere, api_key, openai_api_key, model, embeddings, texts, files,
                       session_api_key>>

ClearChat ==
    /\ embeddings # <<>>
    /\ session_api_key # None
    /\ chat_history' = <<>>
    /\ calls' = <<>>
    /\ progress' = <<>>
    /\ last' = [NoLast EXCEPT !.op = "clear_chat"]
    /\ UNCHANGED <<elsewhere, api_key, openai_api_key, model, embeddings, texts, files,
                   session_api_key>>

\* embeddings_tab.py lines 10-46: the Generate Embeddings button. render
\* returns early without an 'api_key' in the session state; the button needs
\* texts and a key; the processor is never told of selected_model; the
\* success message names selected_model (last.arg).
process_and_generate(T, selected_model) ==
    LET run == GenerateRun(T, [callback |-> TRUE, failAt |-> 0, cbFailAt |-> 0])
        after == GenerateStore(T, run)
    IN  /\ session_api_key # None
        /\ T # <<>>
        /\ Truthy(session_api_key)
        /\ embeddings' = after[1]
        /\ texts' = after[2]
        /\ calls' = run.calls
        /\ progress' = run.progress
        /\ last' = [NoLast EXCEPT !.op = "process_and_generate", !.texts_in = T,
                                  !.callback = TRUE,
                                  !.arg = selected_model,
                                  !.ok = (run.status = "done"),
                                  !.err = IF run.status = "done" THEN "" ELSE run.status,
                                  !.returned = IF run.status = "done"
                                               THEN run.embeddings ELSE <<>>]
        /\ UNCHANGED <<elsewhere, api_key, openai_api_key, model, files, session_api_key,
                       chat_history>>

-----------------------------------------------------------------------------
(* The Load Embeddings action of load_embeddings_tab.py lines 28-47, step by *)
(* step, in the sessions of one server process; each session has its own     *)
(* EmbeddingProcessor (st.session_state) and all share the working directory *)

TempPath == "temp_embeddings"

\* What the sessions upload
TabUploads ==
    { Dump("json", [embeddings |-> <<<<1, 0>>>>, texts |-> <<TextA>>, model |-> Small],
           AllKeys, "upload"),
      Dump("json", [embeddings |-> <<<<0, 1>>>>, texts |-> <<TextB>>,
                    model |-> "text-embedding-ada-002"], AllKeys, "upload"),
      Dump("pickle", [embeddings |-> <<<<0, 1>>>>, texts |-> <<TextB>>,
                      model |-> "text-embedding-ada-002"], AllKeys, "upload"),
      Garbage }

\* line 32
FormatType(uploaded_file) == IF uploaded_file.kind = "pickle" THEN "pickle" ELSE "json"

\* load_embeddings on the processor whose fields are start
LoadRunOn(path, format, start) ==
    LET file == files[path]
    IN  IF format \notin {"pickle", "json"} THEN [start EXCEPT !.status = "format"]
        ELSE IF ~file.exists THEN [start EXCEPT !.status = "FileNotFoundError"]
        ELSE IF file.kind # format THEN [start EXCEPT !.status = "DecodeError"]
        ELSE LoadAssign(Parse(file), start)

\* lines 37-38: open('temp_embeddings', 'wb') and write the upload
TabWrite(s, uploaded_file) ==
    /\ tabs[s].pc \in {"idle", "done"}
    /\ files' = [files EXCEPT ![TempPath] = uploaded_file]
    /\ tabs' = [tabs EXCEPT ![s] = [@ EXCEPT !.pc = "written",
                                             !.upload = uploaded_file,
                                             !.error = ""]]
    /\ UNCHANGED <<api_key, openai_api_key, model, embeddings, texts, calls, progress,
                   last, session_api_key, chat_history, peer_api_key,
                   text_chunks_cache, chunks>>

\* line 40: load_embeddings; an exception goes to line 46 and ends the action
TabLoad(s) ==
    LET t == tabs[s]
        run == LoadRunOn(TempPath, FormatType(t.upload),
                         [status |-> "running", embeddings |-> t.embeddings,
                          texts |-> t.texts, model |-> t.model])
    IN  /\ t.pc = "written"
        /\ tabs' = [tabs EXCEPT ![s] =
                       [t EXCEPT !.embeddings = run.embeddings,
                                 !.texts = run.texts,
                                 !.model = run.model,
                                 !.pc = IF run.status = "ok" THEN "loaded" ELSE "done",
                                 !.error = IF run.status = "ok" THEN "" ELSE "ValueError"]]
        /\ UNCHANGED <<api_key, openai_api_key, model, embeddings, texts, files, calls,
                       progress, last, session_api_key, chat_history, peer_api_key,
                       text_chunks_cache, chunks>>

\* line 42: os.remove('temp_embeddings')
TabRemove(s) ==
    /\ tabs[s].pc = "loaded"
    /\ IF files[TempPath].exists
       THEN /\ files' = [files EXCEPT ![TempPath] = NoFile]
            /\ tabs' = [tabs EXCEPT ![s] = [@ EXCEPT !.pc = "done"]]
       ELSE /\ files' = files
            /\ tabs' = [tabs EXCEPT ![s] = [@ EXCEPT !.pc = "done",
                                                     !.error = "FileNotFoundError"]]
    /\ UNCHANGED <<api_key, openai_api_key, model, embeddings, texts, calls, progress,
                   last, session_api_key, chat_history, peer_api_key,
                   text_chunks_cache, chunks>>

-----------------------------------------------------------------------------
(* A second EmbeddingProcessor, and the IFCProcessor *)

\* The variables of the first EmbeddingProcessor, of its files and of the tabs
session == <<api_key, model, embeddings, texts, files, calls, progress, last,
             session_api_key, chat_history, tabs>>

\* set_api_key called on the second processor
PeerSetApiKey(key) ==
    /\ peer_api_key' = key
    /\ openai_api_key' = key
    /\ UNCHANGED <<session, text_chunks_cache, chunks>>

ConvertRun(processed_data, batch_size, use_cache, cache) ==
    LET cache_key == CacheKey(processed_data)
    IN  IF use_cache /\ cache[cache_key].has
        THEN [returned |-> cache[cache_key].texts, cache |-> cache, hit |-> TRUE]
        ELSE LET result == ConvertBatches(processed_data.elements, 0, batch_size)
             IN  [returned |-> result,
                  cache |-> IF use_cache
                            THEN [cache EXCEPT ![cache_key] = [has |-> TRUE, texts |-> result]]
                            ELSE cache,
                  hit |-> FALSE]

convert_to_text_chunks(processed_data, batch_size, use_cache) ==
    LET run == ConvertRun(processed_data, batch_size, use_cache, text_chunks_cache)
    IN  /\ text_chunks_cache' = run.cache
        /\ chunks' = [op |-> "convert_to_text_chunks",
                      processed_data |-> processed_data,
                      use_cache |-> use_cache,
                      returned |-> run.returned, hit |-> run.hit]
        /\ UNCHANGED <<session, openai_api_key, peer_api_key>>

clear_cache ==
    /\ text_chunks_cache' = EmptyCache
    /\ chunks' = [NoChunks EXCEPT !.op = "clear_cache"]
    /\ UNCHANGED <<session, openai_api_key, peer_api_key>>

\* The processing methods return their dict; they leave the cache alone
process_uploaded_ifc(uploaded_file) ==
    /\ chunks' = [NoChunks EXCEPT !.op = "process_uploaded_ifc",
                                  !.processed_data = ProcessUploadedIfc(uploaded_file)]
    /\ UNCHANGED <<session, openai_api_key, peer_api_key, text_chunks_cache>>

process_sample_ifc(ifc_file) ==
    /\ chunks' = [NoChunks EXCEPT !.op = "process_sample_ifc",
                                  !.processed_data = ProcessSampleIfc(ifc_file)]
    /\ UNCHANGED <<session, openai_api_key, peer_api_key, text_chunks_cache>>


-----------------------------------------------------------------------------
(* Specifications *)

SetApiKey == \E key \in Keys : set_api_key(key)

SetModel == \E m \in AVAILABLE_MODELS \cup {OtherModel} : set_model(m)

\* generate_embeddings with every way the provider or the callback may fail
Generate ==
    \E T \in TextLists, callback \in BOOLEAN, failAt \in 0..MaxTexts,
       cbFailAt \in 0..MaxTexts :
        /\ failAt <= Len(T)
        /\ cbFailAt <= Len(T)
        /\ (cbFailAt > 0 => callback /\ failAt = 0)
        /\ generate_embeddings(T, callback, failAt, cbFailAt)

Find == \E q \in QueryPool, transportFails \in BOOLEAN : find_most_similar(q, transportFails)

\* The processor with its provider: credentials, model selection, generation
\* and search
Next ==
    \/ NewProcessor
    \/ SetApiKey
    \/ SetModel
    \/ Generate
    \/ Find

Spec == Init /\ [][Next]_vars

KeyTab == \E key \in Keys : APIKeyManager(key)

\* generate_embeddings with a progress callback and no transport failure
GenerateOnline == \E T \in TextLists : generate_embeddings(T, TRUE, 0, 0)

FindOnline == \E q \in QueryPool : find_most_similar(q, FALSE)

Save == \E p \in Paths, f \in Formats, openFails \in BOOLEAN : save_embeddings(p, f, openFails)

Load == \E p \in Paths, f \in Formats : load_embeddings(p, f)

Upload == \E p \in Paths, u \in Uploads : WriteUpload(p, u)

\* The processor with its files: saving, loading, and searching what was loaded
PersistNext ==
    \/ NewProcessor
    \/ KeyTab
    \/ GenerateOnline
    \/ FindOnline
    \/ Save
    \/ Load
    \/ Upload

PersistSpec == Init /\ [][PersistNext]_vars

Chat == \E q \in QueryPool : ChatQuery(q)

\* The chat tab over a processor filled by the embeddings tab
ChatNext ==
    \/ KeyTab
    \/ SetModel
    \/ GenerateOnline
    \/ Chat
    \/ ClearChat

ChatSpec == Init /\ [][ChatNext]_vars

GenerateTab ==
    \E T \in TextLists, selected_model \in AVAILABLE_MODELS :
        process_and_generate(T, selected_model)

\* The API Key tab, the Generate & Manage Embeddings tab with its query
\* section, and the chat of one session
TabNext == KeyTab \/ GenerateTab \/ FindOnline \/ Chat \/ ClearChat

TabSpec == Init /\ [][TabNext]_vars

LoadTabNext ==
    \E s \in Sessions :
        \/ \E u \in TabUploads : TabWrite(s, u)
        \/ TabLoad(s)
        \/ TabRemove(s)

\* Two sessions that load embeddings
LoadTabSpec == Init /\ [][LoadTabNext]_vars

PeerKey == \E key \in Keys : PeerSetApiKey(key)

\* Two processors of one process
TwoNext == SetApiKey \/ PeerKey \/ GenerateOnline \/ FindOnline

TwoSpec == Init /\ [][TwoNext]_vars

Convert ==
    \E d \in DataPool, b \in BatchSizes, use_cache \in BOOLEAN :
        convert_to_text_chunks(d, b, use_cache)

\* The dict a processing method has just returned is given to the materializer
ConvertProcessed ==
    /\ chunks.op \in {"process_uploaded_ifc", "process_sample_ifc"}
    /\ \E b \in BatchSizes, use_cache \in BOOLEAN :
           convert_to_text_chunks(chunks.processed_data, b, use_cache)

ClearCache == clear_cache

ProcessUploaded == \E f \in IfcFiles : process_uploaded_ifc(f)

ProcessSample == \E f \in IfcFiles : process_sample_ifc(f)

\* One IFCProcessor
IfcNext == Convert \/ ConvertProcessed \/ ClearCache \/ ProcessUploaded \/ ProcessSample

IfcSpec == Init /\ [][IfcNext]_vars

-----------------------------------------------------------------------------
(* Properties *)

Min(a, b) == IF a < b THEN a ELSE b

ProviderErrors == {"AuthenticationError", "NotFoundError", "APIConnectionError"}

\* C1: texts and embeddings have the same length in every reachable state.
C1_IndexAligned == Len(texts) = Len(embeddings)

\* C2: a generate_embeddings that fails after reaching the provider (a provider
\* call raised, or the progress callback raised) reports that error and leaves
\* embeddings, texts and model as they were before the call.
C2_GenerateFailureKeepsStore ==
    [][(last'.op = "generate_embeddings" /\ ~last'.ok /\ calls' # <<>>)
          => /\ embeddings' = embeddings
             /\ texts' = texts
             /\ model' = model
             /\ last'.err = IF calls'[Len(calls')].ok THEN "CallbackError"
                            ELSE IF openai_api_key # ValidKey THEN "AuthenticationError"
                            ELSE IF model \notin AVAILABLE_MODELS THEN "NotFoundError"
                            ELSE "APIConnectionError"]_vars

\* A generation over two texts failed at the provider on the last text, over a
\* store that held entries.
C2_Witness ==
    /\ last.op = "generate_embeddings" /\ ~last.ok
    /\ Len(last.texts_in) = MaxTexts
    /\ Len(calls) = MaxTexts
    /\ ~calls[Len(calls)].ok /\ calls[1].ok
    /\ embeddings # <<>>

\* C3: a load_embeddings that fails leaves embeddings, texts and model as they
\* were before the call.
C3_LoadFailureKeepsStore ==
    [][(last'.op = "load_embeddings" /\ ~last'.ok)
          => (embeddings' = embeddings /\ texts' = texts /\ model' = model)]_vars

\* The file at the path is one the given format's loader deserializes
Deserializes(path, format) ==
    format \in {"pickle", "json"} /\ files[path].exists /\ files[path].kind = format

\* C4: load_embeddings of a payload that lacks one of the three fields, or
\* whose vectors and texts differ in number, fails and installs nothing.
C4_LoadRejectsCorruptPayload ==
    [][(/\ last'.op = "load_embeddings"
        /\ Deserializes(last'.path, last'.format)
        /\ \/ files[last'.path].has # AllKeys
           \/ Len(files[last'.path].embeddings) # Len(files[last'.path].texts))
          => (~last'.ok /\ embeddings' = embeddings /\ texts' = texts
              /\ model' = model)]_vars

\* C5: loading, with the format it was saved in, a file written by
\* save_embeddings yields the saved store: same entries, texts, vectors, model.
C5_SaveLoadRoundTrip ==
    (/\ last.op = "load_embeddings" /\ last.ok
     /\ files[last.path].by = "save")
        => /\ Len(embeddings) = Len(files[last.path].snap.embeddings)
           /\ embeddings = files[last.path].snap.embeddings
           /\ texts = files[last.path].snap.texts
           /\ model = files[last.path].snap.model

\* A JSON file saved from a store holding a text outside the Basic
\* Multilingual Plane and a negative component was loaded.
C5_Witness ==
    /\ last.op = "load_embeddings" /\ last.ok /\ last.format = "json"
    /\ files[last.path].by = "save"
    /\ texts = <<TextC>>
    /\ embeddings = <<<<-1, 0>>>>

\* C6: after a successful generate_embeddings(T) the store holds exactly the
\* texts T in order, with the provider's vector for T[i] at position i, one
\* provider call per text in input order.
C6_GenerateReplacesInOrder ==
    (last.op = "generate_embeddings" /\ last.ok)
        => /\ texts = last.texts_in
           /\ Len(embeddings) = Len(last.texts_in)
           /\ Len(calls) = Len(last.texts_in)
           /\ \A i \in 1..Len(last.texts_in) :
                 /\ calls[i].input = last.texts_in[i]
                 /\ calls[i].model = model
                 /\ embeddings[i] = Embed(last.texts_in[i], model)
           /\ last.returned = embeddings

\* Two different texts were generated, the second of the pool first.
C6_Witness ==
    /\ last.op = "generate_embeddings" /\ last.ok
    /\ last.texts_in = <<TextB, TextA>>
    /\ embeddings = <<Embed(TextB, model), Embed(TextA, model)>>

\* C7: the chat tab's request for the top 3 results of a query obtains from
\* the processor a sequence of min(3, size) results.
C7_ChatObtainsTopK ==
    (last.op = "chat_query")
        => (last.ok /\ Len(last.returned) = Min(3, Len(embeddings)))

\* The similarity of entry i of the store to the latest query
SimOf(i) == Similarity(embeddings[i], Embed(last.query, model))

\* C8: a find_most_similar that returns, returns an index inside the store
\* whose similarity no other entry exceeds, with that entry's text and score.
C8_TopMatchIsMaximum ==
    (last.op = "find_most_similar" /\ last.ok)
        => /\ last.index >= 0 /\ last.index < Len(embeddings)
           /\ \A j \in 1..Len(embeddings) : ~SimGreater(SimOf(j), SimOf(last.index + 1))
           /\ last.text = texts[last.index + 1]
           /\ last.score = SimOf(last.index + 1)

\* The best entry is not the first one.
C8_Witness ==
    /\ last.op = "find_most_similar" /\ last.ok
    /\ last.index = 1
    /\ SimGreater(SimOf(2), SimOf(1))

\* C9: among entries of equal, maximal similarity find_most_similar returns
\* the one of lowest index: every entry before the returned one is smaller.
C9_TieBreakLowestIndex ==
    (last.op = "find_most_similar" /\ last.ok)
        => \A j \in 1..last.index : SimGreater(SimOf(last.index + 1), SimOf(j))

\* Two entries with different vectors tie for the maximum; the first is returned.
C9_Witness ==
    /\ last.op = "find_most_similar" /\ last.ok
    /\ Len(embeddings) >= 2
    /\ embeddings[1] # embeddings[2]
    /\ SimEqual(SimOf(1), SimOf(2))
    /\ last.index = 0

\* C10: find_most_similar on a store with zero entries fails with the
\* empty-store error, returns nothing and calls the provider not at all.
C10_EmptyStoreGuard ==
    (last.op = "find_most_similar" /\ embeddings = <<>> /\ texts = <<>>)
        => /\ ~last.ok
           /\ last.err = "ValueError"
           /\ last.index = -1 /\ last.text = <<>>
           /\ calls = <<>>

\* A search after loading an empty collection, with a working credential.
C10_Witness ==
    /\ last.op = "find_most_similar"
    /\ embeddings = <<>> /\ texts = <<>>
    /\ model = "text-embedding-ada-002"
    /\ openai_api_key = ValidKey

\* C11: a search whose query vector has another length than the stored
\* vectors fails with numpy's shape error and returns no result.
C11_DimensionGuard ==
    (/\ last.op = "find_most_similar"
     /\ calls # <<>> /\ calls[1].ok
     /\ Len(Embed(last.query, model)) # Len(embeddings[1]))
        => /\ ~last.ok
           /\ last.err = "ValueError"
           /\ last.index = -1 /\ last.text = <<>> /\ last.score = NoScore

\* Vectors of two components were searched with a query of three.
C11_Witness ==
    /\ last.op = "find_most_similar"
    /\ calls # <<>> /\ calls[1].ok
    /\ Len(embeddings) = MaxTexts
    /\ Len(embeddings[1]) = 2
    /\ Len(Embed(last.query, model)) = 3

\* C12: find_most_similar leaves embeddings, texts and model as they were,
\* and of two consecutive calls with one query that both return, the second
\* returns what the first returned.
C12_SearchDeterministic ==
    [][(last'.op = "find_most_similar")
          => /\ embeddings' = embeddings /\ texts' = texts /\ model' = model
             /\ (/\ last.op = "find_most_similar" /\ last.query = last'.query
                 /\ last.ok /\ last'.ok)
                   => /\ last'.index = last.index
                      /\ last'.text = last.text
                      /\ last'.score = last.score]_vars

\* A search under the large model returned the second of two entries.
C12_Witness ==
    /\ last.op = "find_most_similar" /\ last.ok
    /\ model = "text-embedding-3-large"
    /\ Len(embeddings) = 2 /\ Len(embeddings[1]) = 3
    /\ last.index = 1

\* C13: generate_embeddings on a processor whose api_key is None or empty
\* fails with the key-not-set ValueError, without a provider call or a
\* progress notification, and leaves the store as it was.
C13_GenerateNeedsCredential ==
    [][(last'.op = "generate_embeddings" /\ (api_key = None \/ api_key = ""))
          => /\ ~last'.ok /\ last'.err = "ValueError"
             /\ calls' = <<>> /\ progress' = <<>>
             /\ embeddings' = embeddings /\ texts' = texts /\ model' = model]_vars

\* A generation over texts was refused after the key had been set to the
\* empty string, on a store that holds entries.
C13_Witness ==
    /\ last.op = "generate_embeddings" /\ ~last.ok /\ last.err = "ValueError"
    /\ api_key = ""
    /\ last.texts_in # <<>>
    /\ embeddings # <<>>

\* C14: find_most_similar on a non-empty store of a processor whose api_key
\* was never set fails with the key-not-set ValueError and calls no provider.
C14_FindNeedsCredential ==
    (/\ last.op = "find_most_similar"
     /\ api_key = None
     /\ ~NothingToSearch)
        => /\ ~last.ok /\ last.err = "ValueError"
           /\ calls = <<>>

\* C15: every provider call issued for the first processor carries the key
\* last set on that processor, whatever key the second processor was given.
C15_CredentialIsolation ==
    \A i \in 1..Len(calls) : calls[i].key = api_key

\* The segments of an element text: text.split(" | ")
RECURSIVE SplitFrom(_, _, _)
SplitFrom(text, seps, start) ==
    LET after == {i \in seps : i >= start}
    IN  IF after = {} THEN <<SubSeq(text, start, Len(text))>>
        ELSE LET n == CHOOSE i \in after : \A j \in after : i <= j
             IN  <<SubSeq(text, start, n - 1)>> \o SplitFrom(text, seps, n + 3)

Segments(text) ==
    SplitFrom(text, {i \in 1..(Len(text) - 2) : SubSeq(text, i, i + 2) = " | "}, 1)

StartsWith(text, prefix) ==
    Len(text) >= Len(prefix) /\ SubSeq(text, 1, Len(prefix)) = prefix

\* a is b with some entries left out
RECURSIVE IsSubsequence(_, _)
IsSubsequence(a, b) ==
    IF a = <<>> THEN TRUE
    ELSE IF b = <<>> THEN FALSE
    ELSE IF Head(a) = Head(b) THEN IsSubsequence(Tail(a), Tail(b))
    ELSE IsSubsequence(a, Tail(b))

\* The latest call was a convert_to_text_chunks that built its texts from the
\* data it was given
Materialized ==
    /\ chunks.op = "convert_to_text_chunks"
    /\ ~chunks.hit
    /\ Len(chunks.returned) = Len(chunks.processed_data.elements)

\* "<name>: <value>", then a space and the unit when there is a unit
PropertySegment(prop) ==
    prop.name \o ": " \o Str(prop.data.value)
    \o (IF prop.data.unit \in {Absent, None, ""} THEN "" ELSE " " \o prop.data.unit)

\* C16: the text of an element holds a segment for every property whose
\* value is not None, a value of zero included.
C16_ZeroValueIncluded ==
    Materialized =>
        \A i \in 1..Len(chunks.returned) :
            LET sets == chunks.processed_data.elements[i].properties
                segs == Segments(chunks.returned[i])
            IN  \A s \in 1..Len(sets) : \A k \in 1..Len(sets[s].properties) :
                    LET prop == sets[s].properties[k]
                    IN  prop.data.value.kind # "none"
                            => \E g \in 1..Len(segs) : segs[g] = PropertySegment(prop)

\* C17: a "Property Set: <name>" segment is followed by at least one property
\* segment of that set.
C17_EmptyPropertySetSkipped ==
    Materialized =>
        \A i \in 1..Len(chunks.returned) :
            LET segs == Segments(chunks.returned[i])
            IN  \A g \in 1..Len(segs) :
                    StartsWith(segs[g], "Property Set: ")
                        => /\ g < Len(segs)
                           /\ ~StartsWith(segs[g + 1], "Property Set: ")

\* Every header and every property of the sets, in insertion order
RECURSIVE Listing(_)
Listing(sets) ==
    IF sets = <<>> THEN <<>>
    ELSE LET ps == Head(sets)
         IN  <<"Property Set: " \o ps.name>>
             \o [k \in 1..Len(ps.properties) |-> PropertySegment(ps.properties[k])]
             \o Listing(Tail(sets))

\* The headers and properties every reading of "eligible" includes: the
\* properties whose value is neither None nor zero nor empty, and their sets
RECURSIVE ValuedListing(_)
ValuedListing(sets) ==
    IF sets = <<>> THEN <<>>
    ELSE LET ps == Head(sets)
             valued == SelectSeq(ps.properties, LAMBDA q : ValueTruthy(q.data.value))
         IN  (IF valued = <<>> THEN <<>>
              ELSE <<"Property Set: " \o ps.name>>
                   \o [k \in 1..Len(valued) |-> PropertySegment(valued[k])])
             \o ValuedListing(Tail(sets))

C19_TypeDefaultsToUnknown ==
    Materialized =>
        \A i \in 1..Len(chunks.returned) :
            LET segs == Segments(chunks.returned[i])
            IN  /\ StartsWith(segs[1], "Element Type: ")
                /\ chunks.processed_data.elements[i].type \in {Absent, ""}
                      => segs[1] = "Element Type: Unknown"

\* C20: a convert_to_text_chunks call returns what the same call returns on
\* the processor right after clear_cache, whatever calls came before it.
C20_ReferentialTransparency ==
    chunks.op = "convert_to_text_chunks"
        => \A b \in BatchSizes :
              chunks.returned
                  = ConvertRun(chunks.processed_data, b, chunks.use_cache, EmptyCache).returned

\* C21: set_model with a registered identifier makes it the model; with any
\* other identifier it fails with ValueError and leaves model, embeddings,
\* texts and api_key as they were.
C21_ModelRegistry ==
    [][(last'.op = "set_model")
          => /\ embeddings' = embeddings /\ texts' = texts /\ api_key' = api_key
             /\ IF last'.arg \in AVAILABLE_MODELS
                THEN last'.ok /\ model' = last'.arg
                ELSE /\ ~last'.ok /\ last'.err = "ValueError"
                     /\ model' = model /\ model' # last'.arg]_vars

\* An unregistered identifier was refused on a processor that holds entries
\* under a model other than the constructor's.
C21_Witness ==
    /\ last.op = "set_model" /\ ~last.ok /\ last.arg = OtherModel
    /\ model = "text-embedding-3-large"
    /\ embeddings # <<>>
    /\ Truthy(api_key)

\* C22: save_embeddings and load_embeddings with a format other than
\* 'pickle' and 'json' fail with ValueError for the format alone, and leave
\* the files and the store as they were.
C22_UnsupportedFormat ==
    [][(/\ last'.op \in {"save_embeddings", "load_embeddings"}
        /\ last'.format \notin {"pickle", "json"})
          => /\ ~last'.ok /\ last'.err = "ValueError" /\ last'.arg = "format"
             /\ files' = files
             /\ embeddings' = embeddings /\ texts' = texts /\ model' = model]_vars

\* A save under 'csv' was refused while no file was at the path and the
\* store held entries.
C22_Witness ==
    /\ last.op = "save_embeddings" /\ last.format = "csv" /\ ~last.ok
    /\ ~files[last.path].exists
    /\ embeddings # <<>>

\* C23: with a callback, generate_embeddings over n texts notifies once after
\* each embedded text, the i-th notification carrying i/n (i counted from 1);
\* the values never decrease, the last is 1 on success, and a provider
\* failure on the text after k embedded ones leaves exactly k notifications.
C23_ProgressNotifications ==
    (last.op = "generate_embeddings" /\ last.callback) =>
        LET n == Len(last.texts_in)
            embedded == Cardinality({i \in 1..Len(calls) : calls[i].ok})
        IN  /\ Len(progress) = embedded
            /\ \A i \in 1..Len(progress) :
                   progress[i].num = i /\ progress[i].den = n
            /\ \A i, j \in 1..Len(progress) :
                   i < j => progress[i].num * progress[j].den
                                <= progress[j].num * progress[i].den
            /\ last.ok => /\ Len(progress) = n
                          /\ n > 0 => progress[n].num = progress[n].den
            /\ last.err \in ProviderErrors
                  => /\ Len(calls) >= 1 /\ ~calls[Len(calls)].ok
                     /\ Len(progress) = Len(calls) - 1

\* The provider failed on the second of two texts: one notification, 1/2.
C23_Witness ==
    /\ last.op = "generate_embeddings" /\ last.callback
    /\ last.err = "APIConnectionError"
    /\ Len(last.texts_in) = 2
    /\ progress = <<[num |-> 1, den |-> 2]>>

\* Every header and every valued property the entity defines, as segments
RECURSIVE DefinedSegments(_)
DefinedSegments(IsDefinedBy) ==
    IF IsDefinedBy = <<>> THEN {}
    ELSE LET ps == Head(IsDefinedBy)
         IN  {"Property Set: " \o ps.name}
             \cup { ps.properties[k].Name \o ": "
                    \o Str(ps.properties[k].NominalValue.wrappedValue) :
                    k \in {j \in 1..Len(ps.properties) : ps.properties[j].NominalValue.has} }
             \cup DefinedSegments(Tail(IsDefinedBy))

\* The entities of a file in the order extract_building_elements visits them
RECURSIVE EntitiesByType(_, _)
EntitiesByType(entities, t) ==
    IF t > Len(element_types) THEN <<>>
    ELSE SelectSeq(entities, LAMBDA e : e.is_a = element_types[t])
         \o EntitiesByType(entities, t + 1)

\* C24: the texts materialized from the dict that process_uploaded_ifc or
\* process_sample_ifc returned for a file name every property set and every
\* valued property that the elements of the file define.
C24_AllPropertiesDescribed ==
    [][\A f \in IfcFiles :
          (/\ chunks.op \in {"process_uploaded_ifc", "process_sample_ifc"}
           /\ chunks.processed_data \in {ProcessUploadedIfc(f), ProcessSampleIfc(f)}
           /\ chunks'.op = "convert_to_text_chunks"
           /\ chunks'.processed_data = chunks.processed_data
           /\ ~chunks'.hit)
              => LET entities == EntitiesByType(f.entities, 1)
                 IN  /\ Len(chunks'.returned) = Len(entities)
                     /\ \A i \in 1..Len(entities) :
                           LET segs == Segments(chunks'.returned[i])
                           IN  \A seg \in DefinedSegments(entities[i].IsDefinedBy) :
                                   \E g \in 1..Len(segs) : StartsWith(segs[g], seg)]_vars

\* C25: after a successful Generate Embeddings action every provider call
\* was made with the model the success message names.
C25_SelectedModelUsed ==
    (last.op = "process_and_generate" /\ last.ok)
        => \A i \in 1..Len(calls) : calls[i].model = last.arg

\* C26: the model with which find_most_similar embeds the query is the model
\* that produced every stored vector.
C26_QueryModelMatchesStore ==
    (last.op = "find_most_similar" /\ calls # <<>>)
        => \A i \in 1..Min(Len(embeddings), Len(texts)) :
               embeddings[i] = Embed(texts[i], calls[1].model)

\* C27: the model of the processor is a key of AVAILABLE_MODELS in every
\* reachable state.
C27_ModelRegistered == model \in AVAILABLE_MODELS

\* C28: a convert_to_text_chunks call with the cache enabled returns the
\* texts the call with the cache disabled returns for the same data.
C28_CacheConsistent ==
    (chunks.op = "convert_to_text_chunks" /\ chunks.use_cache)
        => \A b \in BatchSizes :
              chunks.returned
                  = ConvertRun(chunks.processed_data, b, FALSE, text_chunks_cache).returned

\* The processor of the session holds what the session's upload holds
HoldsOwnUpload(s) ==
    LET data == Parse(tabs[s].upload)
    IN  /\ tabs[s].embeddings = data.embeddings
        /\ tabs[s].texts = data.texts
        /\ tabs[s].model = data.model

\* C29: a session whose load went through without an error holds the contents
\* of its own upload, and no temporary file is left once every session has
\* finished its action.
C29_ConcurrentLoads ==
    /\ \A s \in Sessions :
          (tabs[s].pc \in {"loaded", "done"} /\ tabs[s].error = "")
              => HoldsOwnUpload(s)
    /\ (\A s \in Sessions : tabs[s].pc = "done") => ~files[TempPath].exists

\* The history is user, assistant, user, assistant, ... of even length, each
\* assistant message answering the query before it
Alternating(h) ==
    /\ Len(h) % 2 = 0
    /\ \A i \in 1..Len(h) :
          IF i % 2 = 1
          THEN h[i].role = "user" /\ h[i].kind = "query"
          ELSE /\ h[i].role = "assistant"
               /\ h[i].kind \in {"response", "Error processing query"}
               /\ h[i].query = h[i - 1].query

\* C30: a chat query appends one user message and then one assistant message
\* (the response or the error message); the history alternates user and
\* assistant with even length in every state, and is empty after Clear Chat.
C30_ChatHistoryPairs ==
    /\ [](Alternating(chat_history))
    /\ [][/\ (last'.op = "chat_query")
                => /\ Len(chat_history') = Len(chat_history) + 2
                   /\ SubSeq(chat_history', 1, Len(chat_history)) = chat_history
                   /\ chat_history'[Len(chat_history) + 1]
                         = [role |-> "user", kind |-> "query", query |-> last'.query]
                   /\ chat_history'[Len(chat_history) + 2].role = "assistant"
          /\ (last'.op = "clear_chat") => chat_history' = <<>>]_vars

\* Two queries were asked and each has its error message after it.
C30_Witness ==
    /\ last.op = "chat_query"
    /\ Len(chat_history) = 4
    /\ chat_history[2].kind = "Error processing query"
    /\ chat_history[4].kind = "Error processing query"
    /\ chat_history[3].query # chat_history[1].query

=============================================================================
